---- MODULE Spec2Model ----
(***************************************************************************)
(* A model of thinc's function registry (thinc/_registry.py): the class    *)
(* attributes that hold the registries, the lookup, the promise detector,  *)
(* the argument binder, the recursive resolver make_from_config and the    *)
(* two-tree fill_and_validate.                                             *)
(*                                                                         *)
(* Strings the code inspects character by character (mapping keys and      *)
(* registry names: startswith("@"), isdigit(), int(), key[1:]) are         *)
(* sequences of one-character strings.  Strings that are only compared     *)
(* (function names, class names, messages) are TLA+ strings.               *)
(*                                                                         *)
(* A Python value is a record [t, v]: t is the kind of the value and v its *)
(* payload.  A dict is the sequence of its <<key, value>> items in         *)
(* insertion order.                                                        *)
(***************************************************************************)
EXTENDS Integers, Sequences, FiniteSets, TLC

VARIABLES attrs, op, arg, result, validation, events

vars == <<attrs, op, arg, result, validation, events>>

(*************************** bounds of the model ***************************)
\* the most non-sigil items of an enumerated top-level mapping
MaxArgs == 2

(***************************** character strings ***************************)
Digits == {"0", "1", "2", "3", "4", "5", "6", "7", "8", "9"}

DigitVal(c) ==
  CASE c = "0" -> 0 [] c = "1" -> 1 [] c = "2" -> 2 [] c = "3" -> 3
    [] c = "4" -> 4 [] c = "5" -> 5 [] c = "6" -> 6 [] c = "7" -> 7
    [] c = "8" -> 8 [] c = "9" -> 9

\* k.startswith("@")
startswith_at(k) == Len(k) >= 1 /\ k[1] = "@"

\* k.isdigit(): non-empty and every character a digit
isdigit(k) == Len(k) >= 1 /\ \A i \in 1..Len(k) : k[i] \in Digits

\* int(k) of a digit string, base 10
RECURSIVE int(_)
int(k) ==
  IF Len(k) = 0 THEN 0
  ELSE 10 * int(SubSeq(k, 1, Len(k) - 1)) + DigitVal(k[Len(k)])

\* names of the three built-in registries and of the class's methods
layers == <<"l", "a", "y", "e", "r", "s">>
optimizers == <<"o", "p", "t", "i", "m", "i", "z", "e", "r", "s">>
schedules == <<"s", "c", "h", "e", "d", "u", "l", "e", "s">>
create == <<"c", "r", "e", "a", "t", "e">>
get == <<"g", "e", "t">>
custom == <<"x">>

\* keys used by the enumerated mappings
AtLayers == <<"@">> \o layers
AtOptimizers == <<"@">> \o optimizers
AtGet == <<"@">> \o get
nO == <<"n", "O">>
nV == <<"n", "V">>
xP == <<"x">>
yP == <<"y">>
mK == <<"m">>
dK == <<"d">>

(********************************* values **********************************)
IntV(n) == [t |-> "int", v |-> n]
StrV(s) == [t |-> "str", v |-> s]
DictV(items) == [t |-> "dict", v |-> items]
\* the object a constructor returns: which function built it, from what
ObjV(fn, args, kwargs) ==
  [t |-> "obj", v |-> [fn |-> fn, args |-> args, kwargs |-> kwargs]]
\* type_.__new__(type_): a bare instance of class cls, __init__ not run
InstV(cls) == [t |-> "inst", v |-> cls]
NoneV == [t |-> "none", v |-> 0]

NoErr == [type |-> "", msg |-> "", about |-> <<>>]
Err(type, msg, about) == [type |-> type, msg |-> msg, about |-> about]

(****************************** dict helpers *******************************)
keys(items) == [i \in 1..Len(items) |-> items[i][1]]

HasKey(items, k) == \E i \in 1..Len(items) : items[i][1] = k

GetItem(items, k) ==
  items[CHOOSE i \in 1..Len(items) : items[i][1] = k][2]

\* d[k] = v: an existing key keeps its place, a new key goes last
SetItem(items, k, v) ==
  IF HasKey(items, k)
  THEN [i \in 1..Len(items) |-> IF items[i][1] = k THEN <<k, v>> ELSE items[i]]
  ELSE Append(items, <<k, v>>)

DistinctKeys(items) ==
  \A i, j \in 1..Len(items) : items[i][1] = items[j][1] => i = j

(***************************** registry store ******************************)
\* A class attribute is a catalogue registry (name -> function) or a method.
Registry(entries) == [kind |-> "registry", entries |-> entries]
Method == [kind |-> "method", entries |-> [n \in {} |-> ""]]
EmptyRegistry == Registry([n \in {} |-> ""])

ClassMethods == {create, get}

\* hasattr(cls, registry_name)
hasattr(a, registry_name) == registry_name \in DOMAIN a

\* registry.get(registry_name, func_name)
registry_get(a, registry_name, func_name) ==
  IF ~hasattr(a, registry_name)
  THEN [err |-> Err("ValueError", "Unknown registry", <<registry_name>>),
        val |-> ""]
  ELSE LET reg == a[registry_name] IN
       IF reg.kind # "registry"
       THEN [err |-> Err("AttributeError", "no attribute 'get'", <<registry_name>>),
             val |-> ""]
       ELSE IF func_name \notin DOMAIN reg.entries
       THEN [err |-> Err("ValueError", "Could not find", <<registry_name, func_name>>),
             val |-> ""]
       ELSE [err |-> NoErr, val |-> reg.entries[func_name]]

\* registry.create(registry_name): the next class attributes and the error
registry_create(a, registry_name) ==
  IF hasattr(a, registry_name)
  THEN [err |-> Err("ValueError", "already exists", <<registry_name>>),
        attrs |-> a]
  ELSE [err |-> NoErr,
        attrs |-> [n \in DOMAIN a \cup {registry_name} |->
                     IF n = registry_name THEN EmptyRegistry ELSE a[n]]]

\* registry.<category>(name)(func): catalogue registers func, last write wins
registry_register(a, category, name, func) ==
  [a EXCEPT ![category] =
     Registry([n \in DOMAIN a[category].entries \cup {name} |->
                 IF n = name THEN func ELSE a[category].entries[n]])]

(************************ registered constructors **************************)
\* A parameter of a constructor's signature (inspect.signature).
Param(name, ann, required, default) ==
  [name |-> name, ann |-> ann, required |-> required, default |-> default]

\* The functions that get registered: D has a default for every parameter,
\* F has one required parameter, Chain takes one or two objects, Boom raises
\* when it runs.
FunctionIds == {"D", "F", "Chain", "Boom"}

Signature(fn) ==
  CASE fn = "D" ->
         [params |-> <<Param(nO, "int", FALSE, IntV(1)),
                       Param(nV, "int", FALSE, IntV(2))>>,
          ret |-> "Model", raises |-> FALSE]
    [] fn = "F" ->
         [params |-> <<Param(nO, "int", TRUE, NoneV)>>,
          ret |-> "Model", raises |-> FALSE]
    [] fn = "Chain" ->
         [params |-> <<Param(xP, "Model", TRUE, NoneV),
                       Param(yP, "Model", FALSE, InstV("Model"))>>,
          ret |-> "Model", raises |-> FALSE]
    [] fn = "Boom" ->
         [params |-> <<Param(nO, "int", FALSE, IntV(1))>>,
          ret |-> "Model", raises |-> TRUE]

ParamNames(sig) == {sig.params[i].name : i \in 1..Len(sig.params)}

\* One constructor invocation, as the outside world sees it.
Event(path, fn, args, kwargs, status) ==
  [path |-> path, fn |-> fn, args |-> args, kwargs |-> kwargs, status |-> status]

\* getter(*args, **kwargs): Python binds the arguments to the signature and
\* raises TypeError before the body runs when they do not fit; otherwise the
\* body runs, and returns an object or raises.
Call(fn, args, kwargs, path) ==
  LET sig == Signature(fn)
      n == Len(sig.params)
      positional == {sig.params[i].name : i \in 1..(IF Len(args) < n THEN Len(args) ELSE n)}
      given == positional \cup {kwargs[i][1] : i \in 1..Len(kwargs)}
      missing == {i \in 1..n : sig.params[i].required /\ sig.params[i].name \notin given}
  IN IF Len(args) > n
     THEN [err |-> Err("TypeError", "too many positional arguments", <<>>),
           val |-> NoneV, events |-> <<>>]
     ELSE IF \E i \in 1..Len(kwargs) : kwargs[i][1] \notin ParamNames(sig)
     THEN [err |-> Err("TypeError", "unexpected keyword argument", <<>>),
           val |-> NoneV, events |-> <<>>]
     ELSE IF \E i \in 1..Len(kwargs) : kwargs[i][1] \in positional
     THEN [err |-> Err("TypeError", "multiple values for argument", <<>>),
           val |-> NoneV, events |-> <<>>]
     ELSE IF missing # {}
     THEN [err |-> Err("TypeError", "missing required argument",
                       <<sig.params[CHOOSE i \in missing : \A j \in missing : i <= j].name>>),
           val |-> NoneV, events |-> <<>>]
     ELSE IF sig.raises
     THEN [err |-> Err("ConstructorError", "raised by the constructor", <<>>),
           val |-> NoneV,
           events |-> <<Event(path, fn, args, kwargs, "raised")>>]
     ELSE [err |-> NoErr,
           val |-> ObjV(fn, args, kwargs),
           events |-> <<Event(path, fn, args, kwargs, "returned")>>]

(******************** promise detector, argument binder ********************)
\* [k for k in obj.keys() if k.startswith("@")]
id_keys(items) == SelectSeq(keys(items), startswith_at)

\* (mutant) any number of sigil keys but zero makes a promise
is_promise_AnySigil(obj) ==
  IF obj.t # "dict" THEN FALSE
  ELSE IF Len(id_keys(obj.v)) = 0 THEN FALSE
  ELSE TRUE

\* registry.is_promise(obj)
is_promise(obj) ==
  IF obj.t # "dict" THEN FALSE
  ELSE IF Len(id_keys(obj.v)) # 1 THEN FALSE
  ELSE TRUE

\* registry.get_constructor(obj), obj a dict's items
get_constructor(a, items) ==
  IF Len(id_keys(items)) # 1
  THEN [err |-> Err("ValueError", "", <<>>), val |-> ""]
  ELSE LET key == id_keys(items)[1]
           value == GetItem(items, key)
       IN registry_get(a, Tail(key), value.v)

\* Python's == on two values: dicts compare as mappings, whatever the order
\* of insertion; two objects are equal only when they are the same object,
\* and no constructor of the model returns an object twice.
RECURSIVE PyEq(_, _)
PyEq(x, y) ==
  IF x.t # y.t THEN FALSE
  ELSE IF x.t = "dict"
  THEN /\ Len(x.v) = Len(y.v)
       /\ \A i \in 1..Len(x.v) :
            /\ HasKey(y.v, x.v[i][1])
            /\ PyEq(x.v[i][2], GetItem(y.v, x.v[i][1]))
  ELSE IF x.t \in {"obj", "inst"} THEN FALSE
  ELSE x = y

\* Python's < is defined between two ints; between dicts, between objects
\* and between an int and either it raises TypeError.  (Strings are ordered
\* too; no enumerated mapping puts a string under a digit key.)
Orderable(x, y) == x.t = "int" /\ y.t = "int"

\* (i, x) < (j, y) on tuples: the first components decide; on a tie the
\* second components are compared unless they are equal.
TupleLt(p, q) ==
  \/ p[1] < q[1]
  \/ p[1] = q[1] /\ ~PyEq(p[2], q[2]) /\ Orderable(p[2], q[2]) /\ p[2].v < q[2].v

\* sorted() has to compare two tuples that tie on the integer and whose
\* values are neither equal nor ordered: it raises TypeError.  (At most two
\* of the enumerated keys denote the same integer.)
SortRaises(pairs) ==
  \E i, j \in 1..Len(pairs) :
    /\ i < j
    /\ pairs[i][1] = pairs[j][1]
    /\ ~PyEq(pairs[i][2], pairs[j][2])
    /\ ~Orderable(pairs[i][2], pairs[j][2])

\* the stable insertion of p into an ascending list
InsertPair(s, p) ==
  LET after == {i \in 1..Len(s) : TupleLt(p, s[i])}
      at == IF after = {} THEN Len(s) + 1
            ELSE CHOOSE i \in after : \A j \in after : i <= j
  IN SubSeq(s, 1, at - 1) \o <<p>> \o SubSeq(s, at, Len(s))

\* sorted(args)
RECURSIVE sorted(_)
sorted(pairs) ==
  IF pairs = <<>> THEN <<>>
  ELSE InsertPair(sorted(SubSeq(pairs, 1, Len(pairs) - 1)), pairs[Len(pairs)])

\* registry.parse_args(obj), obj a dict's items
parse_args(items) ==
  LET plain == SelectSeq(items, LAMBDA it : ~startswith_at(it[1]))
      digit == SelectSeq(plain, LAMBDA it : isdigit(it[1]))
      args == [i \in 1..Len(digit) |-> <<int(digit[i][1]), digit[i][2]>>]
      kwargs == SelectSeq(plain, LAMBDA it : ~isdigit(it[1]))
  IN IF SortRaises(args)
     THEN [err |-> Err("TypeError", "'<' not supported", <<>>),
           args |-> <<>>, kwargs |-> <<>>]
     ELSE [err |-> NoErr,
           args |-> [i \in 1..Len(args) |-> sorted(args)[i][2]],
           kwargs |-> kwargs]

(***************************** config resolver *****************************)
\* (mutant) the loop swallows the exception and goes on to the next item
LoopGoesOnAfterError(acc) == TRUE

\* An exception leaves the for loop: the remaining items are not visited.
LoopGoesOn(acc) == acc.err = NoErr

\* (mutant) the test for a nested mapping looks for the wrong type
is_dict_WrongType(value) == value.t = "list"

\* isinstance(value, dict)
is_dict(value) == value.t = "dict"

\* the exception a step of the resolver raised at path, as the trace shows it
Failure(path) == Event(path, "", <<>>, <<>>, "failed")

\* registry.make_from_config(config), config a dict's items; path is where
\* the mapping sits in the tree the caller passed.  The result is the error
\* raised (NoErr when none), the value returned and the trace of the call:
\* the constructor invocations made, in order, and the step that failed.
RECURSIVE make_from_config(_, _, _), make_from_config_loop(_, _, _, _)
make_from_config_loop(a, items, path, acc) ==
  IF items = <<>> \/ ~LoopGoesOn(acc) THEN acc
  ELSE LET key == Head(items)[1]
           value == Head(items)[2]
       IN IF is_dict(value)
          THEN LET r == make_from_config(a, value.v, Append(path, key))
               IN make_from_config_loop(a, Tail(items), path,
                    [err |-> r.err,
                     val |-> IF r.err = NoErr THEN SetItem(acc.val, key, r.val)
                             ELSE acc.val,
                     events |-> acc.events \o r.events])
          ELSE make_from_config_loop(a, Tail(items), path,
                    [acc EXCEPT !.val = SetItem(acc.val, key, value)])

make_from_config(a, config, path) ==
  LET loop == make_from_config_loop(a, config, path,
                [err |-> NoErr, val |-> <<>>, events |-> <<>>])
      filled == loop.val
  IN IF loop.err # NoErr
     THEN [err |-> loop.err, val |-> NoneV, events |-> loop.events]
     ELSE IF is_promise(DictV(filled))
     THEN LET getter == get_constructor(a, filled)
              parsed == parse_args(filled)
          IN IF getter.err # NoErr
             THEN [err |-> getter.err, val |-> NoneV,
                   events |-> Append(loop.events, Failure(path))]
             ELSE IF parsed.err # NoErr
             THEN [err |-> parsed.err, val |-> NoneV,
                   events |-> Append(loop.events, Failure(path))]
             ELSE LET called == Call(getter.val, parsed.args, parsed.kwargs, path)
                  IN [err |-> called.err, val |-> called.val,
                      events |-> loop.events \o
                                 (IF called.err # NoErr /\ called.events = <<>>
                                  THEN <<Failure(path)>> ELSE called.events)]
     ELSE [err |-> NoErr, val |-> DictV(filled), events |-> loop.events]

(**************************** schema synthesizer ***************************)
\* A pydantic model: its fields in order and its policy on unknown keys.  A
\* field's type is int, str, a class (kind "class", named by cls) or a
\* nested model (kind "model", given by sub).
Schema(fields, extra) == [fields |-> fields, extra |-> extra]
NoSchema == Schema(<<>>, "ignore")
Field(name, kind, cls, sub, required, default) ==
  [name |-> name, kind |-> kind, cls |-> cls, sub |-> sub,
   required |-> required, default |-> default]

FieldNames(schema) == {schema.fields[i].name : i \in 1..Len(schema.fields)}
FieldOf(schema, name) ==
  schema.fields[CHOOSE i \in 1..Len(schema.fields) : schema.fields[i].name = name]

\* the field create_model makes of one parameter of the signature
ParamField(p) ==
  Field(p.name, IF p.ann \in {"int", "str"} THEN p.ann ELSE "class", p.ann,
        NoSchema, p.required, p.default)

\* registry.make_promise_schema(obj), obj a dict's items
make_promise_schema(a, items) ==
  LET func == get_constructor(a, items)
  IN IF func.err # NoErr THEN [err |-> func.err, val |-> NoSchema]
     ELSE LET params == Signature(func.val).params
              sigil == Field(id_keys(items)[1], "str", "str", NoSchema, TRUE, NoneV)
          IN [err |-> NoErr,
              val |-> Schema(<<sigil>> \o [i \in 1..Len(params) |-> ParamField(params[i])],
                             "forbid")]

\* registry.get_return_type(obj), obj a dict's items
get_return_type(a, items) ==
  LET func == get_constructor(a, items)
  IN IF func.err # NoErr THEN [err |-> func.err, val |-> ""]
     ELSE [err |-> NoErr, val |-> Signature(func.val).ret]

\* (mutant) the validation tree gets the constructed object
validation_value_Constructed(a, items, path) == make_from_config(a, items, path)

\* What stands for a promise in the validation tree: type_.__new__(type_),
\* a bare instance of the declared return type.  No constructor runs.
validation_value(a, items, path) ==
  LET type_ == get_return_type(a, items)
  IN IF type_.err # NoErr
     THEN [err |-> type_.err, val |-> NoneV, events |-> <<>>]
     ELSE [err |-> NoErr, val |-> InstV(type_.val), events |-> <<>>]

\* the class of an object or of a bare instance
ClassOf(x) ==
  IF x.t = "inst" THEN x.v
  ELSE IF x.t = "obj" THEN Signature(x.v.fn).ret
  ELSE x.t

\* schema.parse_obj(obj).dict(): every declared field, validated when it is
\* given and defaulted when it is not; a required field that is missing, a
\* value of the wrong type, or (extra = "forbid") an undeclared key raises
\* ValidationError.
RECURSIVE parse_obj(_, _), parse_fields(_, _, _, _)
parse_fields(schema, obj, i, acc) ==
  IF i > Len(schema.fields) \/ acc.err # NoErr THEN acc
  ELSE LET f == schema.fields[i]
       IN IF ~HasKey(obj, f.name)
          THEN IF f.required
               THEN [acc EXCEPT !.err = Err("ValidationError", "field required", <<f.name>>)]
               ELSE parse_fields(schema, obj, i + 1,
                      [acc EXCEPT !.val = Append(acc.val, <<f.name, f.default>>)])
          ELSE LET x == GetItem(obj, f.name)
               IN IF f.kind = "model"
                  THEN IF x.t # "dict"
                       THEN [acc EXCEPT !.err = Err("ValidationError", "value is not a valid dict", <<f.name>>)]
                       ELSE LET sub == parse_obj(f.sub, x.v)
                            IN IF sub.err # NoErr THEN [acc EXCEPT !.err = sub.err]
                               ELSE parse_fields(schema, obj, i + 1,
                                      [acc EXCEPT !.val = Append(acc.val, <<f.name, DictV(sub.val)>>)])
                  ELSE IF ClassOf(x) # f.cls
                  THEN [acc EXCEPT !.err = Err("ValidationError", "wrong type", <<f.name>>)]
                  ELSE parse_fields(schema, obj, i + 1,
                         [acc EXCEPT !.val = Append(acc.val, <<f.name, x>>)])

parse_obj(schema, obj) ==
  LET parsed == parse_fields(schema, obj, 1, [err |-> NoErr, val |-> <<>>])
      extras == {i \in 1..Len(obj) : obj[i][1] \notin FieldNames(schema)}
  IN IF parsed.err # NoErr THEN parsed
     ELSE IF schema.extra = "forbid" /\ extras # {}
     THEN [err |-> Err("ValidationError", "extra fields not permitted",
                       <<obj[CHOOSE i \in extras : \A j \in extras : i <= j][1]>>),
           val |-> <<>>]
     ELSE parsed

(************************** fill-and-validate engine ***********************)
\* dict.update(other)
RECURSIVE update(_, _)
update(items, other) ==
  IF other = <<>> THEN items
  ELSE update(SetItem(items, Head(other)[1], Head(other)[2]), Tail(other))

\* (mutant) the defaults are not written back into filled
fill_missing_Nothing(filled, other) == filled

\* for key, value in validation.items(): if key not in filled: filled[key] = value
RECURSIVE fill_missing(_, _)
fill_missing(filled, other) ==
  IF other = <<>> THEN filled
  ELSE fill_missing(IF HasKey(filled, Head(other)[1]) THEN filled
                    ELSE Append(filled, Head(other)),
                    Tail(other))

FvFail(acc, err) == [acc EXCEPT !.err = err]

\* registry.fill_and_validate(config, schema), config a dict's items.  The
\* result is the error raised (NoErr when none), the two trees and the
\* constructor invocations made.
RECURSIVE fill_and_validate(_, _, _, _), fill_and_validate_loop(_, _, _, _, _)
fill_and_validate_loop(a, items, schema, path, acc) ==
  IF items = <<>> \/ acc.err # NoErr THEN acc
  ELSE LET key == Head(items)[1]
           value == Head(items)[2]
           rest == Tail(items)
       IN IF is_promise(value)
          THEN LET promise_schema == make_promise_schema(a, value.v)
               IN IF promise_schema.err # NoErr THEN FvFail(acc, promise_schema.err)
                  ELSE LET sub == fill_and_validate(a, value.v, promise_schema.val,
                                                    Append(path, key))
                           shadow == validation_value(a, value.v, Append(path, key))
                       IN IF sub.err # NoErr
                          THEN [acc EXCEPT !.err = sub.err, !.events = @ \o sub.events]
                          ELSE IF shadow.err # NoErr
                          THEN [acc EXCEPT !.err = shadow.err,
                                           !.events = @ \o sub.events \o shadow.events]
                          ELSE fill_and_validate_loop(a, rest, schema, path,
                                 [err |-> NoErr,
                                  filled |-> SetItem(acc.filled, key, DictV(sub.filled)),
                                  validation |-> SetItem(acc.validation, key, shadow.val),
                                  events |-> acc.events \o sub.events \o shadow.events])
          ELSE IF value.t = "dict"
          THEN IF key \notin FieldNames(schema)
               THEN FvFail(acc, Err("KeyError", "schema.__fields__", <<key>>))
               ELSE IF FieldOf(schema, key).kind # "model"
               THEN FvFail(acc, Err("AttributeError", "field type is no model", <<key>>))
               ELSE LET sub == fill_and_validate(a, value.v, FieldOf(schema, key).sub,
                                                 Append(path, key))
                    IN IF sub.err # NoErr
                       THEN [acc EXCEPT !.err = sub.err, !.events = @ \o sub.events]
                       ELSE fill_and_validate_loop(a, rest, schema, path,
                              [err |-> NoErr,
                               filled |-> SetItem(acc.filled, key, DictV(sub.filled)),
                               validation |-> SetItem(acc.validation, key, DictV(sub.validation)),
                               events |-> acc.events \o sub.events])
          ELSE fill_and_validate_loop(a, rest, schema, path,
                 [acc EXCEPT !.filled = SetItem(acc.filled, key, value),
                             !.validation = SetItem(acc.validation, key, value)])

fill_and_validate(a, config, schema, path) ==
  LET loop == fill_and_validate_loop(a, config, schema, path,
                [err |-> NoErr, filled |-> <<>>, validation |-> <<>>, events |-> <<>>])
      parsed == parse_obj(schema, loop.validation)
  IN IF loop.err # NoErr
     THEN [err |-> loop.err, filled |-> <<>>, validation |-> <<>>, events |-> loop.events]
     ELSE IF parsed.err # NoErr
     THEN [err |-> parsed.err, filled |-> <<>>, validation |-> <<>>, events |-> loop.events]
     ELSE LET validated == update(loop.validation, parsed.val)
          IN [err |-> NoErr,
              filled |-> fill_missing(loop.filled, validated),
              validation |-> validated,
              events |-> loop.events]

(***************************** enumerated inputs ***************************)
\* every sequence over S of length at most n
SeqsUpTo(S, n) == UNION {[1..k -> S] : k \in 0..n}

\* the registrations made at import time: registry.<category>(name)(func)
Registrations ==
  {<<layers, "D.v0", "D">>, <<layers, "F.v0", "F">>,
   <<layers, "Chain.v0", "Chain">>, <<layers, "Boom.v0", "Boom">>}

FuncNames == {"D.v0", "F.v0", "Chain.v0", "Boom.v0"}

\* names passed to create and get: a registry of the class, a new name,
\* and a name that is a method of the class
CategoryNames == {layers, schedules, custom, get}

\* nested mappings: a plain one, promises, and one with two sigil keys
LeafNodes ==
  {DictV(<< <<nO, IntV(5)>> >>),
   DictV(<< <<AtLayers, StrV("D.v0")>> >>),
   DictV(<< <<AtLayers, StrV("F.v0")>> >>),
   DictV(<< <<AtLayers, StrV("F.v0")>>, <<nO, IntV(5)>> >>),
   DictV(<< <<AtLayers, StrV("Boom.v0")>> >>),
   DictV(<< <<AtLayers, StrV("D.v0")>>, <<AtOptimizers, StrV("D.v0")>> >>)}

\* what the sigil part of a top-level mapping can be
TopSigils ==
  {<<>>,
   << <<AtLayers, StrV("Chain.v0")>> >>,
   << <<AtLayers, StrV("F.v0")>> >>,
   << <<AtGet, StrV("D.v0")>> >>,
   << <<AtLayers, StrV("Chain.v0")>>, <<AtOptimizers, StrV("D.v0")>> >>}

\* the keys "0", "1" and "01"
DigitKeys == {<<"0">>, <<"1">>, <<"0", "1">>}

\* the non-sigil items of a top-level mapping given to make_from_config
ArgItems == (DigitKeys \X ({IntV(1)} \cup LeafNodes)) \cup {<<nO, IntV(5)>>}

\* the mappings given to make_from_config: the sigil part, then at most
\* MaxArgs other items with distinct keys
Configs ==
  {c \in {s \o r : s \in TopSigils, r \in SeqsUpTo(ArgItems, MaxArgs)} :
     DistinctKeys(c)}

\* the non-sigil items of a mapping given to parse_args: its values are
\* resolved ones (scalars, plain mappings, constructed objects)
BoundItems ==
  (DigitKeys \X {IntV(1), IntV(2), DictV(<<>>), DictV(<< <<nO, IntV(5)>> >>),
                 ObjV("D", <<>>, <<>>)})
    \cup {<<nO, IntV(5)>>}

\* the mappings given to parse_args: the sigil key first or last
BoundConfigs ==
  {c \in UNION {{s \o r, r \o s} : s \in {<< <<AtLayers, StrV("Chain.v0")>> >>},
                                  r \in SeqsUpTo(BoundItems, MaxArgs)} :
     DistinctKeys(c)}

\* the schemas given to fill_and_validate
DataSchema == Schema(<<Field(nO, "int", "int", NoSchema, FALSE, IntV(7)),
                       Field(nV, "int", "int", NoSchema, TRUE, NoneV)>>, "ignore")
TopSchema ==
  Schema(<<Field(mK, "class", "Model", NoSchema, TRUE, NoneV),
           Field(dK, "model", "", DataSchema, FALSE,
                 DictV(<< <<nO, IntV(7)>>, <<nV, IntV(8)>> >>)),
           Field(nO, "int", "int", NoSchema, FALSE, IntV(9))>>, "ignore")

\* the non-sigil items of a mapping given to fill_and_validate
FvItems ==
  ({mK, xP} \X LeafNodes)
    \cup ({dK} \X {DictV(<<>>), DictV(<< <<nV, IntV(6)>> >>), IntV(1)})
    \cup ({nO, nV} \X {IntV(5), StrV("five")})

\* what the sigil part of a mapping given to fill_and_validate can be
FvSigils ==
  {<<>>,
   << <<AtLayers, StrV("D.v0")>> >>,
   << <<AtLayers, StrV("F.v0")>> >>,
   << <<AtLayers, StrV("Chain.v0")>> >>}

FvConfigs ==
  {c \in {s \o r : s \in FvSigils, r \in SeqsUpTo(FvItems, MaxArgs)} :
     DistinctKeys(c)}

\* the schema a caller passes with config: the application's schema, or,
\* for a promise, the schema synthesized from its constructor
SchemasFor(a, config) ==
  {TopSchema} \cup
    (IF is_promise(DictV(config)) /\ make_promise_schema(a, config).err = NoErr
     THEN {make_promise_schema(a, config).val} ELSE {})

(********************************* the system ******************************)
NoResult == [err |-> NoErr, val |-> NoneV]

\* the class as defined: three empty registries beside the methods
Init ==
  /\ attrs = [n \in {optimizers, schedules, layers} \cup ClassMethods |->
                IF n \in ClassMethods THEN Method ELSE EmptyRegistry]
  /\ op = "idle"
  /\ arg = <<>>
  /\ result = NoResult
  /\ validation = <<>>
  /\ events = <<>>

Create ==
  /\ op = "idle"
  /\ \E registry_name \in CategoryNames :
       LET r == registry_create(attrs, registry_name)
       IN /\ attrs' = r.attrs
          /\ result' = [err |-> r.err, val |-> NoneV]
          /\ arg' = <<registry_name>>
  /\ op' = "create"
  /\ validation' = <<>>
  /\ events' = <<>>

Register ==
  /\ op = "idle"
  /\ \E r \in Registrations :
       /\ hasattr(attrs, r[1])
       /\ attrs[r[1]].kind = "registry"
       /\ attrs' = registry_register(attrs, r[1], r[2], r[3])
       /\ arg' = r
  /\ op' = "register"
  /\ result' = NoResult
  /\ validation' = <<>>
  /\ events' = <<>>

Get ==
  /\ op = "idle"
  /\ \E registry_name \in CategoryNames, func_name \in FuncNames :
       /\ arg' = <<registry_name, func_name>>
       /\ result' = registry_get(attrs, registry_name, func_name)
  /\ op' = "get"
  /\ validation' = <<>>
  /\ events' = <<>>
  /\ UNCHANGED attrs

ParseArgs ==
  /\ op = "idle"
  /\ \E obj \in BoundConfigs :
       LET r == parse_args(obj)
       IN /\ arg' = obj
          /\ result' = [err |-> r.err, val |-> <<r.args, r.kwargs>>]
  /\ op' = "parse_args"
  /\ validation' = <<>>
  /\ events' = <<>>
  /\ UNCHANGED attrs

MakeFromConfig ==
  /\ op = "idle"
  /\ \E config \in Configs :
       LET r == make_from_config(attrs, config, <<>>)
       IN /\ arg' = config
          /\ result' = [err |-> r.err, val |-> r.val]
          /\ events' = r.events
  /\ op' = "make_from_config"
  /\ validation' = <<>>
  /\ UNCHANGED attrs

FillAndValidate ==
  /\ op = "idle"
  /\ \E config \in FvConfigs : \E schema \in SchemasFor(attrs, config) :
       LET r == fill_and_validate(attrs, config, schema, <<>>)
       IN /\ arg' = <<config, schema>>
          /\ result' = [err |-> r.err, val |-> r.filled]
          /\ validation' = r.validation
          /\ events' = r.events
  /\ op' = "fill_and_validate"
  /\ UNCHANGED attrs

\* the caller has taken the outcome of the call; the trees built for it are
\* dropped, the registries stay
Discard ==
  /\ op # "idle"
  /\ op' = "idle"
  /\ arg' = <<>>
  /\ result' = NoResult
  /\ validation' = <<>>
  /\ events' = <<>>
  /\ UNCHANGED attrs

Next ==
  \/ Create
  \/ Register
  \/ Get
  \/ ParseArgs
  \/ MakeFromConfig
  \/ FillAndValidate
  \/ Discard

Spec == Init /\ [][Next]_vars

(********************************* claims **********************************)
\* What the claims speak of, stated without the operators of the code.
SigilCount(items) ==
  Cardinality({i \in 1..Len(items) : Len(items[i][1]) >= 1 /\ items[i][1][1] = "@"})

SigilItem(items) ==
  items[CHOOSE i \in 1..Len(items) : Len(items[i][1]) >= 1 /\ items[i][1][1] = "@"]

IsPromiseNode(x) == x.t = "dict" /\ SigilCount(x.v) = 1

\* the paths of the promise nodes of a tree
RECURSIVE PromiseNodes(_, _)
PromiseNodes(items, path) ==
  (IF SigilCount(items) = 1 THEN {path} ELSE {})
    \cup UNION {PromiseNodes(items[i][2].v, Append(path, items[i][1])) :
                  i \in {j \in 1..Len(items) : items[j][2].t = "dict"}}

\* whether some node of a tree carries two or more sigil keys
RECURSIVE HasMalformedNode(_)
HasMalformedNode(items) ==
  \/ SigilCount(items) >= 2
  \/ \E i \in 1..Len(items) : items[i][2].t = "dict" /\ HasMalformedNode(items[i][2].v)

\* the mapping at a path of a tree
RECURSIVE NodeAt(_, _)
NodeAt(items, path) ==
  IF path = <<>> THEN items ELSE NodeAt(GetItem(items, Head(path)).v, Tail(path))

IsProperPrefix(p, q) == Len(p) < Len(q) /\ SubSeq(q, 1, Len(p)) = p

Invocations(trace) == SelectSeq(trace, LAMBDA e : e.status # "failed")
Returned(e) == ObjV(e.fn, e.args, e.kwargs)
Passed(e) ==
  {e.args[i] : i \in 1..Len(e.args)} \cup {e.kwargs[i][2] : i \in 1..Len(e.kwargs)}

Categories(a) == {n \in DOMAIN a : a[n].kind = "registry"}

\* the function a promise names, and the items its signature's defaults make
Named(a, items) ==
  a[Tail(SigilItem(items)[1])].entries[SigilItem(items)[2].v]
Defaults(fn) ==
  [i \in 1..Len(Signature(fn).params) |->
     <<Signature(fn).params[i].name, Signature(fn).params[i].default>>]

\* whether some promise node of a tree, given by keywords alone, names a
\* registered constructor and lacks one of its required parameters
RECURSIVE LacksRequired(_, _)
LacksRequired(a, items) ==
  \/ /\ SigilCount(items) = 1
     /\ \A i \in 1..Len(items) : ~isdigit(items[i][1])
     /\ get_constructor(a, items).err = NoErr
     /\ \E i \in 1..Len(Signature(Named(a, items)).params) :
          /\ Signature(Named(a, items)).params[i].required
          /\ ~HasKey(items, Signature(Named(a, items)).params[i].name)
  \/ \E i \in 1..Len(items) :
       items[i][2].t = "dict" /\ LacksRequired(a, items[i][2].v)

\* C1: a make_from_config that returns has invoked the constructor of every
\* promise node exactly once, those of nested promises before that of the
\* promise around them, and has passed each parent its children's returned
\* objects, never a promise mapping.
C1_DepthFirstOnce ==
  (op = "make_from_config" /\ result.err = NoErr) =>
    LET nodes == PromiseNodes(arg, <<>>)
        n == Len(events)
    IN /\ \A i \in 1..n : events[i].status = "returned" /\ events[i].path \in nodes
       /\ \A p \in nodes : Cardinality({i \in 1..n : events[i].path = p}) = 1
       /\ \A i, j \in 1..n :
            IsProperPrefix(events[j].path, events[i].path) => i < j
       /\ \A i, j \in 1..n :
            (/\ Len(events[i].path) = Len(events[j].path) + 1
             /\ IsProperPrefix(events[j].path, events[i].path))
              => Returned(events[i]) \in Passed(events[j])
       /\ \A j \in 1..n : \A x \in Passed(events[j]) : ~IsPromiseNode(x)

\* C1's case: a promise with two promise children has been resolved
C1_Witness ==
  /\ op = "make_from_config"
  /\ result.err = NoErr
  /\ Len(events) = 3
  /\ events[3].path = <<>>
  /\ Len(events[3].args) = 2

\* C2: parse_args returns the values of the digit keys in ascending order
\* of their integers as the positional arguments, and every other non-sigil
\* item as a keyword argument, for every promise.
C2_PositionalByInteger ==
  op = "parse_args" =>
    LET plain == {i \in 1..Len(arg) : ~(Len(arg[i][1]) >= 1 /\ arg[i][1][1] = "@")}
        digit == {i \in plain : isdigit(arg[i][1])}
        n == Cardinality(digit)
    IN /\ result.err = NoErr
       /\ Len(result.val[1]) = n
       /\ \E f \in [1..n -> digit] :
            /\ \A i, j \in 1..n : f[i] = f[j] => i = j
            /\ \A i \in 1..n : result.val[1][i] = arg[f[i]][2]
            /\ \A i, j \in 1..n : i < j => int(arg[f[i]][1]) <= int(arg[f[j]][1])
       /\ result.val[2] = SelectSeq(arg, LAMBDA it : ~(Len(it[1]) >= 1 /\ it[1][1] = "@")
                                                     /\ ~isdigit(it[1]))

\* C3: make_from_config fails on a tree that has a node with two or more
\* sigil keys.
C3_TwoSigilsRejected ==
  (op = "make_from_config" /\ HasMalformedNode(arg)) => result.err # NoErr

\* C4: make_from_config validates before it resolves: on a tree whose
\* promises all name registered constructors and in which one lacks a
\* required parameter, it fails before any constructor has run, and for
\* the promise alone with the missing-field error.
C4_ValidatesBeforeResolving ==
  (/\ op = "make_from_config"
   /\ \A p \in PromiseNodes(arg, <<>>) : get_constructor(attrs, NodeAt(arg, p)).err = NoErr
   /\ LacksRequired(attrs, arg)) =>
    /\ result.err # NoErr
    /\ Invocations(events) = <<>>
    /\ Len(arg) = 1 =>
         result.err.msg \in {"field required", "missing required argument"}

\* C5: get fails with the unknown-registry error when no registry of that
\* name was created, with the unknown-entry error when the registry has no
\* such name, and returns the registered function otherwise, whatever the
\* category string.
C5_LookupContract ==
  op = "get" =>
    IF arg[1] \notin Categories(attrs)
    THEN result.err.type = "ValueError" /\ result.err.msg = "Unknown registry"
    ELSE IF arg[2] \notin DOMAIN attrs[arg[1]].entries
    THEN result.err.type = "ValueError" /\ result.err.msg = "Could not find"
    ELSE result.err = NoErr /\ result.val = attrs[arg[1]].entries[arg[2]]

\* C6: create registers a new empty registry when no category of that name
\* exists, and fails only when one exists.
C6_CreateContract ==
  op = "create" =>
    IF result.err = NoErr
    THEN arg[1] \in Categories(attrs) /\ attrs[arg[1]] = EmptyRegistry
    ELSE result.err.msg = "already exists" /\ arg[1] \in Categories(attrs)

\* C7: a fill_and_validate that returns has put every schema field the input
\* lacks into filled with its default and kept every supplied scalar as
\* supplied; a promise given with its sigil key alone comes out as that key
\* followed by exactly the constructor's parameters with their defaults.
C7_FilledDefaults ==
  (op = "fill_and_validate" /\ result.err = NoErr) =>
    LET config == arg[1]
        schema == arg[2]
        filled == result.val
    IN /\ \A i \in 1..Len(schema.fields) :
            ~HasKey(config, schema.fields[i].name) =>
               /\ HasKey(filled, schema.fields[i].name)
               /\ GetItem(filled, schema.fields[i].name) = schema.fields[i].default
       /\ \A i \in 1..Len(config) :
            /\ HasKey(filled, config[i][1])
            /\ config[i][2].t # "dict" => GetItem(filled, config[i][1]) = config[i][2]
            /\ config[i][2].t = "dict" =>
                 /\ GetItem(filled, config[i][1]).t = "dict"
                 /\ \A j \in 1..Len(config[i][2].v) :
                      /\ HasKey(GetItem(filled, config[i][1]).v, config[i][2].v[j][1])
                      /\ GetItem(GetItem(filled, config[i][1]).v, config[i][2].v[j][1])
                           = config[i][2].v[j][2]
            /\ (IsPromiseNode(config[i][2]) /\ Len(config[i][2].v) = 1) =>
                 GetItem(filled, config[i][1])
                   = DictV(config[i][2].v \o Defaults(Named(attrs, config[i][2].v)))
       /\ (SigilCount(config) = 1 /\ Len(config) = 1) =>
            filled = config \o Defaults(Named(attrs, config))

\* C7's case: a promise with no keyword argument, whose constructor has a
\* default for every parameter, has been filled
C7_Witness ==
  /\ op = "fill_and_validate"
  /\ result.err = NoErr
  /\ arg[1] = << <<AtLayers, StrV("D.v0")>> >>
  /\ result.val = << <<AtLayers, StrV("D.v0")>>, <<nO, IntV(1)>>, <<nV, IntV(2)>> >>

\* C8: make_from_config of a tree without a promise node returns the tree,
\* key for key and value for value, invokes nothing, leaves the registries
\* as they were, and returns the same again when given its own result.
C8_NoPromiseIdentity ==
  [][(op' = "make_from_config" /\ PromiseNodes(arg', <<>>) = {}) =>
       /\ result'.err = NoErr
       /\ result'.val = DictV(arg')
       /\ events' = <<>>
       /\ attrs' = attrs
       /\ make_from_config(attrs', result'.val.v, <<>>).err = NoErr
       /\ make_from_config(attrs', result'.val.v, <<>>).val = result'.val]_vars

\* C8's case: a nested tree without a promise has been resolved
C8_Witness ==
  /\ op = "make_from_config"
  /\ PromiseNodes(arg, <<>>) = {}
  /\ \E i \in 1..Len(arg) : arg[i][2].t = "dict" /\ Len(arg[i][2].v) >= 1
  /\ result.val = DictV(arg)

\* C9: a make_from_config in which a lookup or a constructor failed returns
\* no tree; the failure is the last thing it did and happened once; every
\* constructor that ran before it is still on record as having returned.
C9_AbortOnFirstFailure ==
  (op = "make_from_config" /\ result.err # NoErr) =>
    /\ result.val = NoneV
    /\ Len(events) >= 1
    /\ \A i \in 1..Len(events) : (events[i].status = "returned") <=> (i < Len(events))
    /\ (events[Len(events)].status = "raised") <=> (result.err.type = "ConstructorError")

\* C9's case: a constructor raised after another had returned, with the
\* constructor of the promise around them still to run
C9_Witness ==
  /\ op = "make_from_config"
  /\ result.err.type = "ConstructorError"
  /\ SigilCount(arg) = 1
  /\ Len(events) = 2
  /\ events[1].status = "returned"
  /\ events[2].status = "raised"

\* C10: fill_and_validate invokes no constructor; where the input holds a
\* promise, the validation tree holds a bare instance of the constructor's
\* declared return type and the filled tree the filled promise mapping,
\* sigil key and value kept.
C10_FillInvokesNothing ==
  op = "fill_and_validate" =>
    /\ events = <<>>
    /\ result.err = NoErr =>
         \A i \in 1..Len(arg[1]) :
           IsPromiseNode(arg[1][i][2]) =>
             LET key == arg[1][i][1]
                 promise == arg[1][i][2].v
             IN /\ HasKey(validation, key)
                /\ GetItem(validation, key) = InstV(Signature(Named(attrs, promise)).ret)
                /\ HasKey(result.val, key)
                /\ IsPromiseNode(GetItem(result.val, key))
                /\ SigilItem(GetItem(result.val, key).v) = SigilItem(promise)

\* C10's case: a mapping with a promise-valued key has been filled
C10_Witness ==
  /\ op = "fill_and_validate"
  /\ result.err = NoErr
  /\ \E i \in 1..Len(arg[1]) : IsPromiseNode(arg[1][i][2])

====
